---- MODULE Spec2Model ----
(***************************************************************************)
(* html_main of sync2html.py: one reconciliation pass over a compose       *)
(* manifest (cpkgs) against the koji build tag (bpkgs) and the dist-git    *)
(* tag history of each package.                                            *)
(*                                                                         *)
(* A package is a record [name, ver, arch, signed, note].  ver stands for  *)
(* the (epoch, version, release) triple: the pass only ever compares       *)
(* versions, so they are ranks 1..MaxVer.  arch separates packages of the  *)
(* same name and version that are different packages.  note is the         *)
(* _html_note attribute that read_notes attaches; "" is no note.           *)
(* The hyperlinks handed to html_row are left out of the rows.             *)
(***************************************************************************)
EXTENDS Integers, Sequences, FiniteSets, TLC

MaxPkgs == 2
MaxVer == 3
MaxTags == 3
MaxBuilt == 1

Names == 1..MaxPkgs
ExtraName == MaxPkgs + 1
Vers == 1..MaxVer
Archs == {"src", "x86_64"}

NoRef == <<>>
Unbound == [name |-> 0, ver |-> 0, arch |-> "", signed |-> "", note |-> ""]

\* str(pkg)
Str(pkg) == <<pkg.name, pkg.ver, pkg.arch>>

(***************************************************************************)
(* spkg.Pkg comparison.  Packages are ordered by name, then by version;    *)
(* they are equal when name, version and arch all agree.  Two packages of  *)
(* one name and version with different arch are neither <, == nor >.       *)
(***************************************************************************)
PkgEQ(a, b) == a.name = b.name /\ a.ver = b.ver /\ a.arch = b.arch
PkgLT(a, b) == a.name < b.name \/ (a.name = b.name /\ a.ver < b.ver)
PkgGT(a, b) == PkgLT(b, a)

\* sorted(): a stable sort that uses only <
RECURSIVE Insert(_, _)
Insert(x, s) ==
    IF s = <<>> THEN <<x>>
    ELSE IF PkgLT(x, Head(s)) THEN <<x>> \o s
    ELSE <<Head(s)>> \o Insert(x, Tail(s))

RECURSIVE SortedFrom(_, _)
SortedFrom(acc, s) ==
    IF s = <<>> THEN acc ELSE SortedFrom(Insert(Head(s), acc), Tail(s))

Sorted(s) == SortedFrom(<<>>, s)

RECURSIVE Reversed(_)
Reversed(s) == IF s = <<>> THEN <<>> ELSE Reversed(Tail(s)) \o <<Head(s)>>

(***************************************************************************)
(* Git tags.  A tag is [form, pkg]: form is the text in front of the       *)
(* N-V-R, pkg what spkg.nvr2pkg reads from the rest.                       *)
(***************************************************************************)
TagForms == {"imports/c8/", "imports/c8s/", "imports/c8/%2b", "imports/c8-", "imports/c7/"}

TagPkg(n, v, a) == [name |-> n, ver |-> v, arch |-> a, signed |-> "", note |-> ""]

\* _tags2pkgs
RECURSIVE _tags2pkgs(_)
_tags2pkgs(tags) ==
    IF tags = <<>> THEN <<>>
    ELSE LET tag == Head(tags)
             rest == _tags2pkgs(Tail(tags))
         IN  IF tag.form \in {"imports/c8/", "imports/c8s/"}
             THEN <<tag.pkg>> \o rest
             ELSE rest

\* the tag lists a clone of package n's repository can give
TagsOf(n) ==
    [form : {"imports/c8/"}, pkg : {TagPkg(n, v, a) : v \in Vers, a \in Archs}]
    \cup [form : {"imports/c8s/"}, pkg : {TagPkg(n, MaxVer, "src")}]
    \cup [form : {"imports/c8/"}, pkg : {TagPkg(ExtraName, 1, "src")}]
    \cup [form : {"imports/c7/"}, pkg : {TagPkg(n, 1, "src")}]

SeqsUpTo(S, k) == UNION {[1..m -> S] : m \in 0..k}

\* bpkg2git_tags: a failed clone gives no tags
bpkg2git_tags(cloned, tags) == IF cloned THEN tags ELSE <<>>

(***************************************************************************)
(* _html_row                                                               *)
(***************************************************************************)
TaskStates == {"NONE", "FREE", "OPEN", "CLOSED", "CANCELED", "ASSIGNED", "FAILED", "OTHER"}

NoQuery == [state |-> "", rebuild |-> FALSE, branch |-> FALSE, module |-> FALSE]
NoAnswer == [state |-> "", auto |-> ""]
Queries == [state : TaskStates, rebuild : BOOLEAN, branch : BOOLEAN, module : BOOLEAN]

\* what a need_build row was told: the task state and the automatic note
Answer(q) == [state |-> q.state, auto |-> IF q.module THEN "Module"
                                          ELSE IF q.branch THEN "Branch"
                                          ELSE IF q.rebuild THEN "Rebuild"
                                          ELSE ""]

\* lines 488-490
ManualNote(b, c) == IF b.note # "" THEN b.note ELSE c.note

AutoNote(q) ==
    IF q.module THEN "Module"
    ELSE IF q.branch THEN "Branch"
    ELSE IF q.rebuild THEN "Rebuild"
    ELSE ""

StateLc(state) ==
    CASE state = "NONE" -> "need_build"
      [] state = "FREE" -> "need_build_free"
      [] state = "OPEN" -> "need_build_open"
      [] state = "CLOSED" -> "need_build_closed"
      [] state = "CANCELED" -> "need_build_canceled"
      [] state = "ASSIGNED" -> "need_build_assigned"
      [] state = "FAILED" -> "need_build_failed"
      [] OTHER -> "need_build_unknown"

\* faulty variant of the refinement: an automatic note overrides every task state
RefinedLcAnyState(lc, q, manual) ==
    IF lc # "need_build" THEN lc
    ELSE IF manual = "" /\ AutoNote(q) # "" THEN "need_build_manual"
    ELSE StateLc(q.state)

RefinedLc(lc, q, manual) ==
    IF lc # "need_build" THEN lc
    ELSE IF manual = "" /\ AutoNote(q) # "" /\ StateLc(q.state) = "need_build"
         THEN "need_build_manual"
         ELSE StateLc(q.state)

RowNote(lc, q, manual) ==
    IF lc = "need_build" /\ manual = "" THEN AutoNote(q) ELSE manual

\* the row html_row writes for cpkg c with the enclosing bpkg b
_html_row(c, b, status, ref, lc, q) ==
    [pkg |-> c.name, status |-> status, ref |-> ref,
     note |-> RowNote(lc, q, ManualNote(b, c)),
     lc |-> RefinedLc(lc, q, ManualNote(b, c))]

\* the answers _html_row asks for: the task state only for a need_build row, the
\* rebuild/branch/module tests only when that row has no manual note
RowQueries(c, b, lc) ==
    IF lc # "need_build" THEN {NoQuery}
    ELSE IF ManualNote(b, c) # "" THEN {q \in Queries : ~q.rebuild /\ ~q.branch /\ ~q.module}
    ELSE Queries

(***************************************************************************)
(* State                                                                   *)
(***************************************************************************)
VARIABLES
    cpkgs,          \* sorted(cpkgs), the manifest in the order the pass takes it
    bpkgs,          \* the build tag, as handed in
    filter_pushed, filter_signed,
    pushed,         \* name -> index in bpkgs of the build of that name, 0 for none
    bpkg,           \* html_main's bpkg, which _html_row reads
    stats,
    rows,           \* the rows written to fo for the current package
    nrows,          \* the rows written to fo for the packages before it
    i,              \* position in sorted(cpkgs)
    pc,             \* "loop", "fetch", "scan", "done", "crashed"
    denied,         \* the denylist's answer for the current package
    tpkgs,          \* reversed(sorted(tpkgs)) of the current package
    j,              \* position of the scan in tpkgs
    found,
    fetched,        \* what the clone for the current package gave: "", "failed", "empty", "tags"
    counted,        \* the counters incremented for the current package, in order
    query,          \* what the need_build row of the current package was told
    nquery,         \* task-state queries made for the current package
    ntags           \* tags fetched so far in the pass

\* the signature lookup that main() runs on the build tag before the pass
VARIABLES
    kpkgs,          \* the builds handed to koji_pkgs2archsigs
    rpmsof,         \* build -> number of rpms the build system lists for it
    sigsof,         \* rpm -> the sigkeys the build system holds for it
    kpc,            \* "off", "list", "sigs", "done"
    si,             \* the slice of kpkgs the loop of line 69 is at
    cret,           \* ret of the current call of koji_pkgs2archsigs
    sj,             \* the slice of cret the loop of line 43 is at
    kret,           \* ret of the outermost call
    listcalls,      \* the multicalls of listRPMs sent, each the builds asked for
    sigcalls        \* the multicalls of queryRPMSigs sent, each the rpms asked for

hvars == <<cpkgs, bpkgs, filter_pushed, filter_signed, pushed, bpkg, stats, rows, nrows,
           i, pc, denied, tpkgs, j, found, fetched, counted, query, nquery, ntags>>

kvars == <<kpkgs, rpmsof, sigsof, kpc, si, cret, sj, kret, listcalls, sigcalls>>

vars == <<hvars, kvars>>

\* the lookup is over when html_main starts
KojiOff ==
    /\ kpkgs = <<>>
    /\ rpmsof = <<>>
    /\ sigsof = <<>>
    /\ kpc = "off"
    /\ si = 1
    /\ cret = <<>>
    /\ sj = 1
    /\ kret = <<>>
    /\ listcalls = <<>>
    /\ sigcalls = <<>>

inputs == <<cpkgs, bpkgs, filter_pushed, filter_signed, pushed>>

StatKeys == {"sign", "done", "push", "build", "denied", "missing", "extra",
             "git-old", "tag-old", "error"}

\* faulty variant of the increment: the counter is left as it is
BumpLost(s, k) == s

\* stats[k] += 1
Bump(s, k) == [s EXCEPT ![k] = @ + 1]

\* pushed[bpkg.name] = bpkg, for bpkg in bpkgs: the last build of a name stays
Pushed(bs) ==
    [n \in 1..ExtraName |->
        IF \E k \in 1..Len(bs) : bs[k].name = n
        THEN CHOOSE k \in 1..Len(bs) :
                 bs[k].name = n /\ \A m \in (k + 1)..Len(bs) : bs[m].name # n
        ELSE 0]

\* read_notes: a note, where there is one, is the package's own
CNoteOf(n) == "c" \o ToString(n)
BNoteOf(k) == "b" \o ToString(k)

\* the manifest asks for the middle version, so that builds and tags can be
\* older, equal and newer
Manifests ==
    {m \in SeqsUpTo([name : Names, ver : {(MaxVer + 1) \div 2}, arch : {"src"}, signed : {""},
                     note : {""} \cup {CNoteOf(n) : n \in Names}], MaxPkgs) :
        /\ Len(m) >= 1
        /\ {m[k].name : k \in 1..Len(m)} = 1..Len(m)
        /\ \A k \in 1..Len(m) : m[k].note \in {"", CNoteOf(m[k].name)}
        /\ \A k, l \in 1..Len(m) : k # l => m[k].name # m[l].name}

BuildTags ==
    {b \in SeqsUpTo([name : 1..ExtraName, ver : Vers, arch : Archs,
                     signed : {"", "key"},
                     note : {""} \cup {BNoteOf(k) : k \in 1..MaxBuilt}], MaxBuilt) :
        \A k \in 1..Len(b) :
            /\ b[k].note \in {"", BNoteOf(k)}
            /\ b[k].name = ExtraName => b[k].ver = 1 /\ b[k].arch = "src" /\ b[k].signed = "key"}

Init ==
    /\ \E m \in Manifests : cpkgs = Sorted(m)
    /\ bpkgs \in BuildTags
    /\ filter_pushed \in BOOLEAN
    /\ filter_signed \in BOOLEAN
    /\ pushed = Pushed(bpkgs)
    /\ bpkg = IF bpkgs = <<>> THEN Unbound ELSE bpkgs[Len(bpkgs)]
    /\ stats = [k \in StatKeys |-> 0]
    /\ rows = <<>>
    /\ nrows = 0
    /\ i = 1
    /\ pc = "loop"
    /\ denied = FALSE
    /\ tpkgs = <<>>
    /\ j = 1
    /\ found = FALSE
    /\ fetched = ""
    /\ counted = <<>>
    /\ query = NoAnswer
    /\ nquery = 0
    /\ ntags = 0
    /\ KojiOff

cpkg == cpkgs[i]

(***************************************************************************)
(* The tests of html_main                                                  *)
(***************************************************************************)
\* line 553: cpkg.name not in pushed
NotPushed(c) == pushed[c.name] = 0

\* line 568: not filter_signed and not bpkg.signed
ShowUnsigned(b) == ~filter_signed /\ b.signed = ""

\* line 572: not filter_pushed
ShowDone == ~filter_pushed

\* faulty variant of line 582: the denylist is not asked
AutobuildNeverDenied(d) == FALSE

\* line 582: if denied, for a build older than the manifest
AutobuildDenied(d) == d

\* faulty variant of line 597: tags of other names are not skipped
SkipNoTag(t, c) == FALSE

\* line 597: tpkg.name != cpkg.name
SkipTag(t, c) == t.name # c.name

\* faulty variant of line 606: the build is never taken for the manifest package
NoBuildNever(c, b) == FALSE

\* line 606: cpkg == bpkg
NoBuild(c, b) == PkgEQ(c, b)

\* faulty variant of line 609: the row names the history entry
LatestTag(b, t) == Str(t)

\* line 609: the build the need_build row names
LatestBuild(b, t) == Str(b)

\* faulty variants of line 619: the inverted test, and no test
NotFoundInverted(f) == f
NotFoundAlways(f) == TRUE

\* line 619: not found
NotFound(f) == ~f

(***************************************************************************)
(* The pass                                                                *)
(***************************************************************************)
Fresh == [rows |-> <<>>, counted |-> <<>>, query |-> NoAnswer, nquery |-> 0]
SoFar == [rows |-> rows, counted |-> counted, query |-> query, nquery |-> nquery]

\* _html_row(...) and stats[key] += 1, then on
Emit(base, b, status, ref, lc, q, key, nextpc, nexti) ==
    /\ rows' = Append(base.rows, _html_row(cpkg, b, status, ref, lc, q))
    /\ counted' = Append(base.counted, key)
    /\ stats' = Bump(stats, key)
    /\ query' = IF lc = "need_build" THEN Answer(q) ELSE base.query
    /\ nquery' = IF lc = "need_build" THEN base.nquery + 1 ELSE base.nquery
    /\ pc' = nextpc
    /\ i' = nexti

\* an exception leaves html_main
Crash(base) ==
    /\ pc' = "crashed"
    /\ rows' = base.rows
    /\ counted' = base.counted
    /\ query' = base.query
    /\ nquery' = base.nquery
    /\ UNCHANGED <<stats, i>>

\* no row
Quiet(base, nextpc, nexti) ==
    /\ pc' = nextpc
    /\ i' = nexti
    /\ rows' = base.rows
    /\ counted' = base.counted
    /\ query' = base.query
    /\ nquery' = base.nquery
    /\ UNCHANGED stats

\* lines 550-590: the denylist and the build tag
Classify ==
    /\ pc = "loop"
    /\ i <= Len(cpkgs)
    /\ \E d \in BOOLEAN :
        /\ denied' = d
        /\ fetched' = ""
        /\ tpkgs' = <<>>
        /\ j' = 1
        /\ found' = FALSE
        /\ nrows' = nrows + Len(rows)
        /\ UNCHANGED <<inputs, ntags>>
        /\ IF NotPushed(cpkg)
           THEN IF d
                THEN /\ bpkg' = bpkg
                     /\ IF bpkg = Unbound
                        THEN Crash(Fresh)
                        ELSE Emit(Fresh, bpkg, "denied", NoRef, "denied", NoQuery,
                                  "denied", "loop", i + 1)
                ELSE /\ bpkg' = cpkg
                     /\ stats' = Bump(stats, "missing")
                     /\ counted' = <<"missing">>
                     /\ rows' = <<>>
                     /\ query' = NoAnswer
                     /\ nquery' = 0
                     /\ pc' = "fetch"
                     /\ i' = i
           ELSE LET b == bpkgs[pushed[cpkg.name]] IN
                /\ bpkg' = b
                /\ IF PkgEQ(cpkg, b)
                   THEN IF ShowUnsigned(b)
                        THEN Emit(Fresh, b, "built not signed", NoRef, "need_signing", NoQuery,
                                  "sign", "loop", i + 1)
                        ELSE IF ShowDone
                        THEN Emit(Fresh, b, "built and signed", NoRef, "done", NoQuery,
                                  "done", "loop", i + 1)
                        ELSE Quiet(Fresh, "loop", i + 1)
                   ELSE IF PkgLT(cpkg, b)
                   THEN Emit(Fresh, b, "OLDER than build: ", Str(b), "older", NoQuery,
                             "tag-old", "loop", i + 1)
                   ELSE IF PkgGT(cpkg, b)
                   THEN IF AutobuildDenied(d)
                        THEN Emit(Fresh, b, "autobuild denied:", Str(b), "denied", NoQuery,
                                  "denied", "loop", i + 1)
                        ELSE Quiet(Fresh, "fetch", i)
                   ELSE Emit(Fresh, b, "ERROR: ", Str(b), "error", NoQuery,
                             "error", "fetch", i)
    /\ UNCHANGED kvars

\* lines 593-595: the clone of the package's repository and its import tags
Fetch ==
    /\ pc = "fetch"
    /\ \E cloned \in BOOLEAN, tags \in SeqsUpTo(TagsOf(bpkg.name), MaxTags - ntags) :
        /\ cloned \/ tags = <<>>
        /\ tpkgs' = Reversed(Sorted(_tags2pkgs(bpkg2git_tags(cloned, tags))))
        /\ fetched' = IF ~cloned THEN "failed" ELSE IF tags = <<>> THEN "empty" ELSE "tags"
        /\ ntags' = ntags + Len(tags)
    /\ found' = FALSE
    /\ j' = 1
    /\ pc' = "scan"
    /\ UNCHANGED <<inputs, bpkg, stats, rows, nrows, i, denied, counted, query, nquery>>
    /\ UNCHANGED kvars

\* lines 596-618: one turn of the scan, newest tag first; a break goes on to
\* line 619 with found set, and so to the next manifest package
ScanStep ==
    /\ pc = "scan"
    /\ j <= Len(tpkgs)
    /\ UNCHANGED <<inputs, bpkg, denied, tpkgs, fetched, ntags, nrows>>
    /\ UNCHANGED kvars
    /\ LET tpkg == tpkgs[j] IN
       IF SkipTag(tpkg, cpkg)
       THEN /\ j' = j + 1
            /\ found' = found
            /\ Quiet(SoFar, "scan", i)
       ELSE /\ found' = TRUE
            /\ IF PkgLT(cpkg, tpkg)
               THEN /\ j' = j + 1
                    /\ Emit(SoFar, bpkg, "OLDER than git: ", Str(tpkg), "older", NoQuery,
                            "git-old", "scan", i)
               ELSE /\ j' = j
                    /\ IF PkgEQ(cpkg, tpkg)
                       THEN IF NoBuild(cpkg, bpkg)
                            THEN Emit(SoFar, bpkg, "No BUILD", NoRef, "nobuild", NoQuery,
                                      "build", "loop", i + 1)
                            ELSE \E q \in RowQueries(cpkg, bpkg, "need_build") :
                                   Emit(SoFar, bpkg, "BUILD needed, latest build: ",
                                        LatestBuild(bpkg, tpkg), "need_build", q,
                                        "build", "loop", i + 1)
                       ELSE IF PkgGT(cpkg, tpkg)
                       THEN Emit(SoFar, bpkg, "PUSH needed, latest git: ", Str(tpkg),
                                 "need_push", NoQuery, "push", "loop", i + 1)
                       ELSE Crash(SoFar)

\* lines 619-621 after a scan that ran through all the tags
ScanEnd ==
    /\ pc = "scan"
    /\ j > Len(tpkgs)
    /\ UNCHANGED <<inputs, bpkg, denied, tpkgs, j, found, fetched, ntags, nrows>>
    /\ UNCHANGED kvars
    /\ IF NotFound(found)
       THEN Emit(SoFar, bpkg, "Missing from git", NoRef, "missing", NoQuery,
                 "push", "loop", i + 1)
       ELSE Quiet(SoFar, "loop", i + 1)

\* line 637: return stats
Return ==
    /\ pc = "loop"
    /\ i > Len(cpkgs)
    /\ pc' = "done"
    /\ nrows' = nrows + Len(rows)
    /\ rows' = <<>>
    /\ counted' = <<>>
    /\ denied' = FALSE
    /\ tpkgs' = <<>>
    /\ j' = 1
    /\ found' = FALSE
    /\ fetched' = ""
    /\ query' = NoAnswer
    /\ nquery' = 0
    /\ UNCHANGED <<inputs, bpkg, stats, i, ntags>>
    /\ UNCHANGED kvars

Next == Classify \/ Fetch \/ ScanStep \/ ScanEnd \/ Return

Spec == Init /\ [][Next]_vars

(***************************************************************************)
(* koji_pkgs2archsigs and koji_archpkgs2sigs (lines 40-89): the rpms of    *)
(* each build and their signatures, asked of the build system in           *)
(* multicalls of at most _koji_max_query queries.  A build is its place in *)
(* the list handed in; an rpm is [build, id, signed].  The value of        *)
(* pkg.signed is '' , one key, or a list of keys: [one, many] here.        *)
(***************************************************************************)
\* line 40, 2000 in the source: scaled down with the lists
_koji_max_query == 2
MaxBuilds == 4
MaxRpms == 2
SigPeriod == 2

\* the results of queryRPMSigs, as the sigkey of each: "" is an entry without key
SigAnswers == {<<>>, <<"", "k1">>, <<"k1", "", "k2">>}

NotSigned == [one |-> "unset", many |-> <<>>]

\* line 75 and lines 80-86: the rpms the build system lists for a build
ListRPMs(b) ==
    [r \in 1..rpmsof[b] |-> [build |-> b, id |-> (b - 1) * MaxRpms + r, signed |-> NotSigned]]

\* line 52: the signatures the build system holds for an rpm
QueryRPMSigs(rpm) == sigsof[rpm.id % SigPeriod]

RECURSIVE Flatten(_)
Flatten(ss) == IF ss = <<>> THEN <<>> ELSE Head(ss) \o Flatten(Tail(ss))

Min(a, b) == IF a < b THEN a ELSE b

\* a slice one query too long
SliceWide(s, from) == SubSeq(s, from + 1, Min(from + _koji_max_query + 1, Len(s)))

\* pkgs[i:i + _koji_max_query]
Slice(s, from) == SubSeq(s, from + 1, Min(from + _koji_max_query, Len(s)))

\* range(0, len(pkgs), _koji_max_query), in order
Starts(n) == [k \in 1..((n + _koji_max_query - 1) \div _koji_max_query) |->
                 (k - 1) * _koji_max_query]

\* lines 42-45 and 67-71: the lists the multicalls are made for
Slices(s) ==
    IF Len(s) > _koji_max_query
    THEN [k \in 1..Len(Starts(Len(s))) |-> Slice(s, Starts(Len(s))[k])]
    ELSE <<s>>

\* lines 56-64: pkg.signed from the result of the query
Signed(result) ==
    LET keys == SelectSeq(result, LAMBDA k : k # "") IN
    IF Len(keys) = 0 THEN [one |-> "", many |-> <<>>]
    ELSE IF Len(keys) = 1 THEN [one |-> keys[1], many |-> <<>>]
    ELSE [one |-> "", many |-> keys]

\* lines 54-64 for one multicall: results come back in the order asked, and
\* zip gives each package of the slice its signed
SignSlice(pkgs) ==
    LET results == [k \in 1..Len(pkgs) |-> QueryRPMSigs(pkgs[k])] IN
    [k \in 1..Len(pkgs) |-> [pkgs[k] EXCEPT !.signed = Signed(results[k])]]

\* html_main is not running
HtmlOff ==
    /\ cpkgs = <<>>
    /\ bpkgs = <<>>
    /\ filter_pushed = FALSE
    /\ filter_signed = FALSE
    /\ pushed = Pushed(<<>>)
    /\ bpkg = Unbound
    /\ stats = [k \in StatKeys |-> 0]
    /\ rows = <<>>
    /\ nrows = 0
    /\ i = 1
    /\ pc = "off"
    /\ denied = FALSE
    /\ tpkgs = <<>>
    /\ j = 1
    /\ found = FALSE
    /\ fetched = ""
    /\ counted = <<>>
    /\ query = NoAnswer
    /\ nquery = 0
    /\ ntags = 0

KojiInit ==
    /\ HtmlOff
    /\ kpkgs \in {[k \in 1..n |-> k] : n \in 0..MaxBuilds}
    /\ rpmsof \in [1..Len(kpkgs) -> 0..MaxRpms]
    /\ sigsof \in [0..(SigPeriod - 1) -> SigAnswers]
    /\ kpc = "list"
    /\ si = 1
    /\ cret = <<>>
    /\ sj = 1
    /\ kret = <<>>
    /\ listcalls = <<>>
    /\ sigcalls = <<>>

\* lines 73-86: one multicall of listRPMs, for one slice of the builds
ListBatch ==
    /\ kpc = "list"
    /\ si <= Len(Slices(kpkgs))
    /\ LET pkgs == Slices(kpkgs)[si] IN
        /\ listcalls' = Append(listcalls, pkgs)
        /\ cret' = Flatten([k \in 1..Len(pkgs) |-> ListRPMs(pkgs[k])])
    /\ sj' = 1
    /\ kpc' = "sigs"
    /\ UNCHANGED <<kpkgs, rpmsof, sigsof, si, kret, sigcalls>>
    /\ UNCHANGED hvars

\* lines 48-64, called from line 88 or line 44: one multicall of queryRPMSigs,
\* for one slice of the rpms
SigBatch ==
    /\ kpc = "sigs"
    /\ sj <= Len(Slices(cret))
    /\ LET slices == Slices(cret)
           pkgs == slices[sj] IN
        /\ sigcalls' = Append(sigcalls, [k \in 1..Len(pkgs) |-> pkgs[k].id])
        /\ cret' = Flatten([k \in 1..Len(slices) |->
                               IF k = sj THEN SignSlice(pkgs) ELSE slices[k]])
    /\ sj' = sj + 1
    /\ UNCHANGED <<kpkgs, rpmsof, sigsof, kpc, si, kret, listcalls>>
    /\ UNCHANGED hvars

\* line 89, and line 70 in a split run: ret goes to the caller
SigReturn ==
    /\ kpc = "sigs"
    /\ sj > Len(Slices(cret))
    /\ kret' = kret \o cret
    /\ cret' = <<>>
    /\ sj' = 1
    /\ si' = si + 1
    /\ kpc' = IF si + 1 > Len(Slices(kpkgs)) THEN "done" ELSE "list"
    /\ UNCHANGED <<kpkgs, rpmsof, sigsof, listcalls, sigcalls>>
    /\ UNCHANGED hvars

KojiNext == ListBatch \/ SigBatch \/ SigReturn

KojiSpec == KojiInit /\ [][KojiNext]_vars

(***************************************************************************)
(* The package the locals speak of: the one being processed, or, back at   *)
(* the head of the loop, the one just finished.                            *)
(***************************************************************************)
Live == (pc = "loop" /\ i > 1) \/ pc \in {"fetch", "scan", "crashed"}
Completed == pc = "loop" /\ i > 1
cur == IF pc = "loop" THEN cpkgs[i - 1] ELSE cpkgs[i]
Build == bpkgs[pushed[cur.name]]
FiltersOff == ~filter_pushed /\ ~filter_signed

\* the build comparison resolves to none of <, == and >
BuildErr ==
    /\ ~NotPushed(cur)
    /\ ~PkgEQ(cur, Build) /\ ~PkgLT(cur, Build) /\ ~PkgGT(cur, Build)

\* the history entries of the package's name, newest first
IsOwn(t) == t.name = cur.name
OwnT == SelectSeq(tpkgs, IsOwn)
NewerOwn == Cardinality({k \in 1..Len(OwnT) : PkgLT(cur, OwnT[k])})
AllNewer == \A k \in 1..Len(OwnT) : PkgLT(cur, OwnT[k])

\* OwnT[k] equals the manifest package and everything before it is newer
MatchAt(k) ==
    /\ k \in 1..Len(OwnT)
    /\ PkgEQ(cur, OwnT[k])
    /\ \A m \in 1..(k - 1) : PkgLT(cur, OwnT[m])

NeedBuildLcs == {"need_build", "need_build_free", "need_build_open", "need_build_closed",
                 "need_build_canceled", "need_build_assigned", "need_build_failed",
                 "need_build_unknown", "need_build_manual"}

RowLcs == {rows[k].lc : k \in 1..Len(rows)}

Total(s) == s["sign"] + s["done"] + s["push"] + s["build"] + s["denied"] + s["missing"]
            + s["extra"] + s["git-old"] + s["tag-old"] + s["error"]

\* rows from..(from + n - 1) are the older rows of OwnT[1..n]
OlderRows(from, n) ==
    \A k \in 1..n :
        /\ rows[from + k - 1].lc = "older"
        /\ rows[from + k - 1].status = "OLDER than git: "
        /\ rows[from + k - 1].ref = Str(OwnT[k])

(***************************************************************************)
(* C1.  As claimed: with both filters off every manifest package gets      *)
(* exactly one row.  Stated for the packages whose build comparison        *)
(* resolves.                                                               *)
(***************************************************************************)
C1_OneRowPerPackage ==
    (Completed /\ FiltersOff /\ ~BuildErr) => Len(rows) = 1

ExpectedRows ==
    IF fetched = "" THEN 1
    ELSE (IF BuildErr THEN 1 ELSE 0) + NewerOwn
         + (IF OwnT = <<>> \/ ~AllNewer THEN 1 ELSE 0)

\* C1, amended: with both filters off every row of a finished package is a row
\* for that manifest package, and the package has one row for the build tag's
\* verdict or, when the history is scanned, one older row for each history entry
\* newer than the manifest, one more row for the first entry that is not newer
\* (or the missing row when no entry has its name), after an error row when the
\* build comparison did not resolve: at least one row, and more than one only
\* with newer history entries or an unresolved build comparison.
C1_RowsPerPackage ==
    (Completed /\ FiltersOff) =>
        /\ \A k \in 1..Len(rows) : rows[k].pkg = cur.name
        /\ Len(rows) = ExpectedRows
        /\ Len(rows) >= 1
        /\ (Len(rows) > 1 => BuildErr \/ NewerOwn > 0)

C1_Witness ==
    /\ Completed /\ FiltersOff /\ ~BuildErr
    /\ NewerOwn = 2
    /\ Len(rows) = 3
    /\ \E k \in 1..Len(bpkgs) : bpkgs[k].name = ExtraName

(***************************************************************************)
(* C2.  As claimed: at the end of a pass the counters sum to the number of *)
(* manifest packages.  Stated for the passes with both filters off in      *)
(* which every build comparison resolves.                                  *)
(***************************************************************************)
Comparable(c) ==
    NotPushed(c) \/ LET b == bpkgs[pushed[c.name]] IN PkgEQ(c, b) \/ PkgLT(c, b) \/ PkgGT(c, b)

KeyOf(r) ==
    CASE r.lc = "need_signing" -> "sign"
      [] r.lc = "done" -> "done"
      [] r.lc = "denied" -> "denied"
      [] r.lc = "error" -> "error"
      [] r.lc = "older" /\ r.status = "OLDER than build: " -> "tag-old"
      [] r.lc = "older" /\ r.status = "OLDER than git: " -> "git-old"
      [] r.lc = "nobuild" -> "build"
      [] r.lc \in NeedBuildLcs -> "build"
      [] r.lc = "need_push" -> "push"
      [] r.lc = "missing" -> "push"

NoRowCount == IF Live /\ NotPushed(cur) /\ ~denied THEN <<"missing">> ELSE <<>>

C3Case == Live /\ denied /\ ~NotPushed(cur) /\ PkgGT(cur, Build)

C3_DenylistPrecedence ==
    C3Case =>
        /\ Completed
        /\ fetched = ""
        /\ nquery = 0
        /\ counted = <<"denied">>
        /\ rows = <<[pkg |-> cur.name, status |-> "autobuild denied:", ref |-> Str(Build),
                     note |-> ManualNote(Build, cur), lc |-> "denied"]>>

C3_Witness == C3Case /\ Completed /\ Len(rows) = 1 /\ i <= Len(cpkgs)

(***************************************************************************)
(* C4.  As claimed: a package with no build, not denylisted, whose history *)
(* holds the manifest version behind newer entries only, is need_build.    *)
(***************************************************************************)
C4Case == Live /\ fetched # "" /\ NotPushed(cur) /\ ~denied /\ \E k \in 1..Len(OwnT) : MatchAt(k)

C4_NeedBuild ==
    (C4Case /\ Completed) => RowLcs \cap NeedBuildLcs # {}

\* C4, amended: such a package gets one older row for each newer entry and then
\* a row tagged nobuild ("No BUILD"), counted under build after the missing
\* counter; no row is tagged missing or need_build, no task state is asked for,
\* and the scan stops at the matching entry, so that no older entry is examined.
C4_NoBuild ==
    C4Case =>
        /\ pc # "crashed"
        /\ Completed =>
            \E k \in 1..Len(OwnT) :
                /\ MatchAt(k)
                /\ Len(rows) = k
                /\ OlderRows(1, k - 1)
                /\ rows[k].lc = "nobuild"
                /\ rows[k].status = "No BUILD"
                /\ counted = <<"missing">> \o [m \in 1..(k - 1) |-> "git-old"] \o <<"build">>
                /\ RowLcs \cap (NeedBuildLcs \cup {"missing"}) = {}
                /\ nquery = 0
                /\ PkgEQ(cur, tpkgs[j])
                /\ Len(SelectSeq(SubSeq(tpkgs, 1, j), IsOwn)) = k

C4_Witness ==
    /\ C4Case /\ Completed
    /\ Len(OwnT) = 3
    /\ MatchAt(2)
    /\ PkgGT(cur, OwnT[3])
    /\ j = 2
    /\ Len(rows) = 2

(***************************************************************************)
(* C5.  A package whose build is older than the manifest, not denylisted,  *)
(* and whose newest history entry is the manifest version, gets exactly    *)
(* one row, need_build or a refinement of it, naming the build in the      *)
(* build tag, and only the build counter is incremented.                   *)
(***************************************************************************)
C5Case ==
    /\ Live /\ fetched # "" /\ ~NotPushed(cur) /\ PkgGT(cur, Build) /\ ~denied
    /\ MatchAt(1)

C5_NeedBuildNamesBuild ==
    C5Case =>
        /\ pc # "crashed"
        /\ Completed =>
            /\ Len(rows) = 1
            /\ rows[1].pkg = cur.name
            /\ rows[1].lc \in NeedBuildLcs
            /\ rows[1].status = "BUILD needed, latest build: "
            /\ rows[1].ref = Str(Build)
            /\ counted = <<"build">>

C5_Witness ==
    /\ C5Case /\ Completed
    /\ Len(OwnT) = 2
    /\ PkgGT(cur, OwnT[2])
    /\ rows[1].lc = "need_build"

(***************************************************************************)
(* C6.  A package with no build, not denylisted, whose repository has no   *)
(* tags or cannot be cloned, gets the missing row, never an error row, and *)
(* the pass goes on.                                                       *)
(***************************************************************************)
C6Case == Live /\ NotPushed(cur) /\ ~denied /\ fetched \in {"failed", "empty"}

C6_EmptyHistoryIsMissing ==
    C6Case =>
        /\ pc \in {"scan", "loop"}
        /\ tpkgs = <<>>
        /\ "error" \notin RowLcs
        /\ pc = "scan" => rows = <<>>
        /\ Completed =>
            /\ Len(rows) = 1
            /\ rows[1].pkg = cur.name
            /\ rows[1].lc = "missing"
            /\ rows[1].status = "Missing from git"

C6_Witness ==
    /\ C6Case /\ Completed
    /\ fetched = "failed"
    /\ i <= Len(cpkgs)
    /\ rows[1].lc = "missing"

(***************************************************************************)
(* C7.  As claimed: a package identical to its build is reported as        *)
(* need_signing exactly when the build is unsigned and as done exactly     *)
(* when it is signed, under every combination of the filters.              *)
(***************************************************************************)
C7_FiltersOnlySuppress ==
    (Completed /\ ~NotPushed(cur) /\ PkgEQ(cur, Build)) =>
        /\ fetched = ""
        /\ \A k \in 1..Len(rows) :
               rows[k].lc = IF Build.signed = "" THEN "need_signing" ELSE "done"

(***************************************************************************)
(* C8.  As claimed: a comparison that is none of <, == and > gives one     *)
(* error row and one increment of error for the package, ends the decision *)
(* for it, and never aborts the pass.                                      *)
(***************************************************************************)
C8_ErrorRowNeverFatal ==
    /\ ~(pc = "crashed" /\ fetched # "")
    /\ (Completed /\ BuildErr) => (Len(rows) = 1 /\ rows[1].lc = "error" /\ counted = <<"error">>)

(***************************************************************************)
(* C9.  As claimed: a need_build row's tag is need_build_manual whenever   *)
(* there is no manual note and the package is detected as a rebuild,       *)
(* branch or module package, whatever the task state.                      *)
(***************************************************************************)
ByState ==
    [s \in TaskStates |->
        IF s = "NONE" THEN "need_build"
        ELSE IF s = "FREE" THEN "need_build_free"
        ELSE IF s = "OPEN" THEN "need_build_open"
        ELSE IF s = "ASSIGNED" THEN "need_build_assigned"
        ELSE IF s = "CLOSED" THEN "need_build_closed"
        ELSE IF s = "CANCELED" THEN "need_build_canceled"
        ELSE IF s = "FAILED" THEN "need_build_failed"
        ELSE "need_build_unknown"]

IsBuildRow(r) == r.status = "BUILD needed, latest build: "

C9_ManualWhateverState ==
    Live => \A k \in 1..Len(rows) :
        IsBuildRow(rows[k]) =>
            rows[k].lc = IF ManualNote(bpkg, cur) = "" /\ query.auto # ""
                         THEN "need_build_manual"
                         ELSE ByState[query.state]

\* the tag every other row carries
PlainLc(r) ==
    CASE r.status = "denied" -> "denied"
      [] r.status = "autobuild denied:" -> "denied"
      [] r.status = "built not signed" -> "need_signing"
      [] r.status = "built and signed" -> "done"
      [] r.status = "OLDER than build: " -> "older"
      [] r.status = "OLDER than git: " -> "older"
      [] r.status = "ERROR: " -> "error"
      [] r.status = "No BUILD" -> "nobuild"
      [] r.status = "PUSH needed, latest git: " -> "need_push"
      [] r.status = "Missing from git" -> "missing"

\* C9, amended: a need_build row's tag is need_build_manual only when the task
\* state is NONE, there is no manual note and the package is detected as a
\* rebuild, branch or module package; for every other task state the tag is the
\* one of the state (need_build_free ... need_build_unknown), with the automatic
\* note attached all the same.  Rows of any other kind keep their tag and ask
\* for no task state.
C9_Refinement ==
    Live =>
        /\ nquery = Cardinality({k \in 1..Len(rows) : IsBuildRow(rows[k])})
        /\ \A k \in 1..Len(rows) :
            IF IsBuildRow(rows[k])
            THEN /\ query.state \in TaskStates
                 /\ rows[k].lc = IF query.state = "NONE" /\ ManualNote(bpkg, cur) = ""
                                     /\ query.auto # ""
                                  THEN "need_build_manual"
                                  ELSE ByState[query.state]
                 /\ rows[k].note = IF ManualNote(bpkg, cur) = "" THEN query.auto
                                   ELSE ManualNote(bpkg, cur)
            ELSE rows[k].lc = PlainLc(rows[k])

C9_Witness ==
    /\ Completed
    /\ Len(rows) = 1
    /\ rows[1].lc = "need_build_failed"
    /\ rows[1].note = "Branch"
    /\ query.state = "FAILED"

(***************************************************************************)
(* C10.  As claimed: when every history entry of the package's name is     *)
(* newer than the manifest, the package's final status is missing.         *)
(***************************************************************************)
C10Case == Live /\ fetched # "" /\ AllNewer

C10_AllNewerIsMissing ==
    (C10Case /\ Completed) => (Len(rows) >= 1 /\ rows[Len(rows)].lc = "missing")

ScanFrom == IF BuildErr THEN 2 ELSE 1

\* C10, amended: when every history entry of the package's name is newer than
\* the manifest, the package gets one row tagged older for each of them, counted
\* under git-old, and no missing row; the missing row is written only when no
\* history entry has the package's name.
C10_AllNewerIsOlder ==
    C10Case =>
        /\ pc # "crashed"
        /\ Completed =>
            IF OwnT = <<>>
            THEN /\ Len(rows) = ScanFrom
                 /\ rows[Len(rows)].lc = "missing"
                 /\ rows[Len(rows)].status = "Missing from git"
            ELSE /\ Len(rows) = ScanFrom - 1 + Len(OwnT)
                 /\ OlderRows(ScanFrom, Len(OwnT))
                 /\ "missing" \notin RowLcs
                 /\ stats["git-old"] >= Len(OwnT)

C10_Witness ==
    /\ C10Case /\ Completed
    /\ Len(OwnT) = 2
    /\ Len(rows) = 2
    /\ ~BuildErr

(***************************************************************************)
(* C12.  As claimed: the note of every row of a package is the note of the *)
(* package's own build-tag record, else of its own manifest record, else   *)
(* empty (or, on a need_build row without a manual note, the automatic     *)
(* note of the package itself), also for a denylisted package absent from  *)
(* the build tag, and also when the build tag is empty, where the row is   *)
(* still written.                                                          *)
(***************************************************************************)
OwnNote == IF NotPushed(cur) THEN cur.note ELSE ManualNote(Build, cur)

C12_OwnNoteOnly ==
    /\ ~(pc = "crashed" /\ fetched = "")
    /\ Live => \A k \in 1..Len(rows) :
           \/ rows[k].note = OwnNote
           \/ IsBuildRow(rows[k]) /\ OwnNote = "" /\ rows[k].note = query.auto

(***************************************************************************)
(* C11.  Every multicall of koji_pkgs2archsigs and koji_archpkgs2sigs      *)
(* holds at most _koji_max_query queries, every build and every rpm is     *)
(* asked for exactly once, in order, and the result list and the signed    *)
(* value of every rpm are those of a run with one multicall for all.       *)
(***************************************************************************)
IsPrefix(a, b) == Len(a) <= Len(b) /\ a = SubSeq(b, 1, Len(a))

\* what one multicall of listRPMs and one of queryRPMSigs for everything give
Unsplit ==
    LET rpms == Flatten([k \in 1..Len(kpkgs) |-> ListRPMs(kpkgs[k])]) IN
    [k \in 1..Len(rpms) |-> [rpms[k] EXCEPT !.signed = Signed(QueryRPMSigs(rpms[k]))]]

UnsplitIds == [k \in 1..Len(Unsplit) |-> Unsplit[k].id]

C11_BatchCeiling ==
    /\ \A k \in 1..Len(listcalls) : Len(listcalls[k]) <= _koji_max_query
    /\ \A k \in 1..Len(sigcalls) : Len(sigcalls[k]) <= _koji_max_query
    /\ IsPrefix(Flatten(listcalls), kpkgs)
    /\ IsPrefix(Flatten(sigcalls), UnsplitIds)
    /\ kpc = "done" =>
        /\ Flatten(listcalls) = kpkgs
        /\ Flatten(sigcalls) = UnsplitIds
        /\ kret = Unsplit

C11_Witness ==
    /\ kpc = "done"
    /\ Len(kpkgs) = 3
    /\ Len(listcalls) = 2
    /\ Len(sigcalls) = 3
    /\ Len(sigcalls[1]) = _koji_max_query
    /\ Len(sigcalls[2]) = 1
    /\ Len(kret) = 4
    /\ \E k \in 1..Len(kret) : kret[k].signed.many # <<>>
    /\ \E k \in 1..Len(kret) : kret[k].signed.one = "k1"
====
